---- MODULE Spec2Model ----
(***************************************************************************)
(* A model of the MathJax v3 document pipeline (AbstractMathDocument in    *)
(* core/MathDocument.ts), of the DOM string scanner (HTMLDomStrings) and   *)
(* of the fraction wrapper and the quoted-text wrapper (CommonMfrac and    *)
(* CommonMs in output/common/Wrappers).                                    *)
(***************************************************************************)
EXTENDS Integers, Sequences, FiniteSets, TLC

VARIABLES
    math,        \* AbstractMathDocument.math: the MathList, in document order
    processed,   \* AbstractMathDocument.processed: the five stage flags
    options,     \* AbstractMathDocument.options: the two error handlers, what the two processors can do
    last,        \* history: the last operation, what it threw, the calls it made
    handed,      \* history: per stage, the items handed to it since its flag was last unset
    host,        \* the host tree find() walks: its nodes in document order
    strings,     \* HTMLDomStrings.strings
    string,      \* HTMLDomStrings.string, as a sequence of characters
    snodes,      \* HTMLDomStrings.snodes
    nodes,       \* HTMLDomStrings.nodes
    stack,       \* HTMLDomStrings.stack
    node,        \* find(): the current node, 0 when there is none
    ignore,      \* find(): the ignore flag
    stop,        \* find(): the sibling after the root, 0 when there is none
    pc,          \* find(): "idle" between calls, "loop" inside the while loop
    result,      \* what the last find() returned
    scanned,     \* history: the calls of find() so far, the nodes visited by the last, the result before
    frac,        \* the mfrac wrapper: its node's attributes, its children's boxes, the font
    bevel,       \* CommonMfrac.bevel: the box of the bevel mo, NoBevel when there is none
    bbox,        \* the BBox given to computeBBox
    trace,       \* history: the calls computeBBox made on the BBox and the layouts it ran
    uvq,         \* what the last getUVQ(display) returned, and its argument
    wpc,         \* the wrapper: "none", "new" before its constructor, "built" after, "done" after computeBBox
    ms           \* the ms wrapper: its variant, its node's attributes, CommonMs.childNodes

dvars == <<math, processed, options, last, handed>>

svars == <<host, strings, string, snodes, nodes, stack, node, ignore, stop, pc, result, scanned>>

wvars == <<frac, bevel, bbox, trace, uvq, wpc, ms>>

vars == <<math, processed, options, last, handed,
          host, strings, string, snodes, nodes, stack, node, ignore, stop, pc, result, scanned,
          frac, bevel, bbox, trace, uvq, wpc, ms>>

\* ---------------------------------------------------------------- bounds
\* the longest MathList of the specification with rollback (Spec)
MaxItems == 1
\* the longest MathList of the specification of the forward passes (SpecPass)
MaxPassItems == 2
\* the most nodes of a scanned subtree of any labels (SpecScan)
MaxNodes == 3
\* the most nodes of a scanned subtree of texts and skip tags (SpecText)
MaxTextNodes == 4
\* the most nodes of a scanned subtree that find() is to come back from (SpecLive)
MaxLiveNodes == 5
\* the most calls of find() on one host tree (SpecNest)
MaxFinds == 2
\* the most nodes of a scanned subtree of nested class regions (SpecNest)
MaxNestNodes == 5
\* the largest height or depth of a fraction's part, in half ems
MaxHalfEms == 2
\* the deepest script level of a fraction
MaxScriptLevel == 2
\* the most children of an ms node
MaxMsChildren == 2

\* ------------------------------------------------- MathItem STATE values
UNPROCESSED == 0
FOUND == 1
COMPILED == 2
TYPESET == 3
INSERTED == 4

States == {UNPROCESSED, FOUND, COMPILED, TYPESET, INSERTED}

\* ------------------------------------------------------------ exceptions
NoErr == [kind |-> "none", retry |-> FALSE, restart |-> FALSE]
FatalErr == [kind |-> "Error", retry |-> FALSE, restart |-> FALSE]
RetryErr == [kind |-> "Error", retry |-> TRUE, restart |-> FALSE]
RestartErr == [kind |-> "Error", retry |-> FALSE, restart |-> TRUE]
HandlerErr == [kind |-> "HandlerError", retry |-> FALSE, restart |-> FALSE]

\* what one call of an external processor does: return or throw
Outcomes == {NoErr, FatalErr, RetryErr, RestartErr}

\* the processors of a document: one that can fail in any way, one whose
\* failures are all flagged retry or restart
AnyFailure == "any failure"
Propagating == "retry or restart"

\* what one call of a processor does
ProcessorOutcomes(jax) ==
    IF jax = AnyFailure THEN Outcomes ELSE {NoErr, RetryErr, RestartErr}

Handlers == {"default", "throws"}

\* ------------------------------------------------------ roots of an item
NoRoot == [kind |-> "null", text |-> "", display |-> ""]
MmlRoot == [kind |-> "math", text |-> "", display |-> ""]
NoNode == [kind |-> "null", attr |-> "", text |-> ""]
OutNode == [kind |-> "mjx-container", attr |-> "", text |-> ""]

NewItem(i, d) ==
    [id |-> i, display |-> d, state |-> FOUND, root |-> NoRoot,
     typesetRoot |-> NoNode, inputError |-> NoErr, outputError |-> NoErr]

\* one call made by an operation: which call, on which item, and what it threw
Ev(e, i, err) == [ev |-> e, id |-> i, err |-> err]

Ret(m, l, t) == [math |-> m, log |-> l, threw |-> t]

\* ------------------------------------------------------------- MathItem
\* MathItem.compile: keyed on the item's state
ItemCompile(item, oc) ==
    IF item.state < COMPILED
    THEN IF oc = NoErr
         THEN [item |-> [item EXCEPT !.root = MmlRoot, !.state = COMPILED],
               threw |-> NoErr, called |-> TRUE]
         ELSE [item |-> item, threw |-> oc, called |-> TRUE]
    ELSE [item |-> item, threw |-> NoErr, called |-> FALSE]

\* MathItem.typeset: keyed on the item's state
ItemTypeset(item, oc) ==
    IF item.state < TYPESET
    THEN IF oc = NoErr
         THEN [item |-> [item EXCEPT !.typesetRoot = OutNode, !.state = TYPESET],
               threw |-> NoErr, called |-> TRUE]
         ELSE [item |-> item, threw |-> oc, called |-> TRUE]
    ELSE [item |-> item, threw |-> NoErr, called |-> FALSE]

\* MathItem.updateDocument: splice the typeset output into the host tree
ItemUpdateDocument(item, oc) ==
    IF item.state < INSERTED
    THEN IF oc = NoErr
         THEN [item |-> [item EXCEPT !.state = INSERTED], threw |-> NoErr]
         ELSE [item |-> item, threw |-> oc]
    ELSE [item |-> item, threw |-> NoErr]

\* MathItem.state(state, restore)
ItemState(item, state, restore) == [item EXCEPT !.state = state]

\* MathList.merge
Merge(list, other) == list \o other

\* MathList.reversed: the positions of the list, last first
Reversed(list) == [k \in 1..Len(list) |-> Len(list) + 1 - k]

\* ------------------------------------------------- AbstractMathDocument
\* mutant: the error tree never carries the display attribute
CompileErrorInline(item, err) ==
    [item EXCEPT !.root = [kind |-> "math>merror>mtext", text |-> "Math input error",
                           display |-> ""]]

\* compileError: the error tree math > merror > mtext
CompileError(item, err) ==
    [item EXCEPT !.root = [kind |-> "math>merror>mtext", text |-> "Math input error",
                           display |-> IF item.display THEN "block" ELSE ""]]

\* typesetError: the error span
TypesetError(item, err) ==
    [item EXCEPT !.typesetRoot = [kind |-> "span", attr |-> "data-mjx-error",
                                  text |-> "Math output error"]]

\* mutant: every failure is thrown again
IsolateCompileNever(err) == FALSE

\* mutant: only the retry flag is looked at
IsolateCompileRetryOnly(err) == ~err.retry

\* the catch clause of compile(): rethrow, or isolate
IsolateCompile(err) == ~(err.retry \/ err.restart)

\* mutant: every failure is thrown again
IsolateTypesetNever(err) == FALSE

\* the catch clause of typeset(): rethrow, or isolate
IsolateTypeset(err) == ~(err.retry \/ err.restart)

\* what the input processor can do for an item that MathItem.compile hands to it
CompileOutcomes(item) == IF item.state < COMPILED THEN ProcessorOutcomes(options.InputJax) ELSE {NoErr}

\* what the output processor can do for an item that MathItem.typeset hands to it
TypesetOutcomes(item) == IF item.state < TYPESET THEN ProcessorOutcomes(options.OutputJax) ELSE {NoErr}

\* what MathItem.updateDocument can do
UpdateOutcomes(item) == IF item.state < INSERTED THEN Outcomes ELSE {NoErr}

RECURSIVE CompileLoopSwallow(_, _, _, _)
\* mutant: what the handler throws is dropped and the loop goes on
CompileLoopSwallow(m, i, log, handler) ==
    IF i > Len(m) THEN {Ret(m, log, NoErr)}
    ELSE UNION {
        LET r == ItemCompile(m[i], oc)
            l1 == log \o <<Ev("compile", m[i].id, NoErr)>>
                      \o (IF r.called THEN <<Ev("inputJax", m[i].id, r.threw)>> ELSE <<>>)
        IN IF r.threw = NoErr
           THEN CompileLoopSwallow([m EXCEPT ![i] = r.item], i + 1, l1, handler)
           ELSE IF ~IsolateCompile(r.threw)
           THEN {Ret(m, l1, r.threw)}
           ELSE IF handler = "throws"
           THEN CompileLoopSwallow(m, i + 1,
                                   l1 \o <<Ev("compileError", m[i].id, r.threw)>>, handler)
           ELSE CompileLoopSwallow(
                  [m EXCEPT ![i] = [CompileError(m[i], r.threw)
                                      EXCEPT !.inputError = r.threw]],
                  i + 1, l1 \o <<Ev("compileError", m[i].id, r.threw)>>, handler)
        : oc \in CompileOutcomes(m[i]) }

RECURSIVE CompileLoop(_, _, _, _)
\* the for loop of compile(), from position i on: every way it can go
CompileLoop(m, i, log, handler) ==
    IF i > Len(m) THEN {Ret(m, log, NoErr)}
    ELSE UNION {
        LET r == ItemCompile(m[i], oc)
            l1 == log \o <<Ev("compile", m[i].id, NoErr)>>
                      \o (IF r.called THEN <<Ev("inputJax", m[i].id, r.threw)>> ELSE <<>>)
        IN IF r.threw = NoErr
           THEN CompileLoop([m EXCEPT ![i] = r.item], i + 1, l1, handler)
           ELSE IF ~IsolateCompile(r.threw)
           THEN {Ret(m, l1, r.threw)}
           ELSE IF handler = "throws"
           THEN {Ret(m, l1 \o <<Ev("compileError", m[i].id, r.threw)>>, HandlerErr)}
           ELSE CompileLoop(
                  [m EXCEPT ![i] = [CompileError(m[i], r.threw)
                                      EXCEPT !.inputError = r.threw]],
                  i + 1, l1 \o <<Ev("compileError", m[i].id, r.threw)>>, handler)
        : oc \in CompileOutcomes(m[i]) }

RECURSIVE TypesetLoop(_, _, _, _)
\* the for loop of typeset(), from position i on: every way it can go
TypesetLoop(m, i, log, handler) ==
    IF i > Len(m) THEN {Ret(m, log, NoErr)}
    ELSE UNION {
        LET r == ItemTypeset(m[i], oc)
            l1 == log \o <<Ev("typeset", m[i].id, NoErr)>>
                      \o (IF r.called THEN <<Ev("outputJax", m[i].id, r.threw)>> ELSE <<>>)
        IN IF r.threw = NoErr
           THEN TypesetLoop([m EXCEPT ![i] = r.item], i + 1, l1, handler)
           ELSE IF ~IsolateTypeset(r.threw)
           THEN {Ret(m, l1, r.threw)}
           ELSE IF handler = "throws"
           THEN {Ret(m, l1 \o <<Ev("typesetError", m[i].id, r.threw)>>, HandlerErr)}
           ELSE TypesetLoop(
                  [m EXCEPT ![i] = [TypesetError(m[i], r.threw)
                                      EXCEPT !.outputError = r.threw]],
                  i + 1, l1 \o <<Ev("typesetError", m[i].id, r.threw)>>, handler)
        : oc \in TypesetOutcomes(m[i]) }

RECURSIVE UpdateLoopIsolating(_, _, _)
\* mutant: a failure without retry or restart is passed over and the loop goes on
UpdateLoopIsolating(m, k, log) ==
    IF k > Len(m) THEN {Ret(m, log, NoErr)}
    ELSE UNION {
        LET i == Reversed(m)[k]
            r == ItemUpdateDocument(m[i], oc)
            l1 == log \o <<Ev("updateDocument", m[i].id, r.threw)>>
        IN IF r.threw = NoErr \/ ~(r.threw.retry \/ r.threw.restart)
           THEN UpdateLoopIsolating([m EXCEPT ![i] = r.item], k + 1, l1)
           ELSE {Ret(m, l1, r.threw)}
        : oc \in UpdateOutcomes(m[Reversed(m)[k]]) }

RECURSIVE UpdateLoopForward(_, _, _)
\* mutant: the loop iterates over this.math instead of this.math.reversed()
UpdateLoopForward(m, k, log) ==
    IF k > Len(m) THEN {Ret(m, log, NoErr)}
    ELSE UNION {
        LET r == ItemUpdateDocument(m[k], oc)
            l1 == log \o <<Ev("updateDocument", m[k].id, r.threw)>>
        IN IF r.threw = NoErr
           THEN UpdateLoopForward([m EXCEPT ![k] = r.item], k + 1, l1)
           ELSE {Ret(m, l1, r.threw)}
        : oc \in UpdateOutcomes(m[k]) }

RECURSIVE UpdateLoop(_, _, _)
\* the for loop of updateDocument(), from position k of the reversed list on
UpdateLoop(m, k, log) ==
    IF k > Len(m) THEN {Ret(m, log, NoErr)}
    ELSE UNION {
        LET i == Reversed(m)[k]
            r == ItemUpdateDocument(m[i], oc)
            l1 == log \o <<Ev("updateDocument", m[i].id, r.threw)>>
        IN IF r.threw = NoErr
           THEN UpdateLoop([m EXCEPT ![i] = r.item], k + 1, l1)
           ELSE {Ret(m, l1, r.threw)}
        : oc \in UpdateOutcomes(m[Reversed(m)[k]]) }

\* the items of the log's events of one kind
Ids(log, e) == {log[k].id : k \in {j \in 1..Len(log) : log[j].ev = e}}

\* mutant: compile() runs its pass whatever the flag
CompileGuardAlways(p) == TRUE

\* the guard of compile()
CompileGuard(p) == ~p.compile

\* the guard of typeset()
TypesetGuard(p) == ~p.typeset

\* the guard of getMetrics()
GetMetricsGuard(p) == ~p.getMetrics

\* the guard of updateDocument()
UpdateDocumentGuard(p) == ~p.updateDocument

\* mutant: compile() forgets to set its flag
CompileDoneForgotten(p) == p

\* the flag set at the end of compile()
CompileDone(p) == [p EXCEPT !.compile = TRUE]

\* the flag set at the end of typeset()
TypesetDone(p) == [p EXCEPT !.typeset = TRUE]

\* the flag set at the end of getMetrics()
GetMetricsDone(p) == [p EXCEPT !.getMetrics = TRUE]

\* the flag set at the end of updateDocument()
UpdateDocumentDone(p) == [p EXCEPT !.updateDocument = TRUE]

\* mutant: the comparisons include the target
StateFlagsInclusive(p, state) ==
    [p EXCEPT !.updateDocument = IF state <= INSERTED THEN FALSE ELSE @,
              !.typeset = IF state <= TYPESET THEN FALSE ELSE @,
              !.getMetrics = IF state <= TYPESET THEN FALSE ELSE @,
              !.compile = IF state <= COMPILED THEN FALSE ELSE @]

\* the flags after state(state, restore)
StateFlags(p, state) ==
    [p EXCEPT !.updateDocument = IF state < INSERTED THEN FALSE ELSE @,
              !.typeset = IF state < TYPESET THEN FALSE ELSE @,
              !.getMetrics = IF state < TYPESET THEN FALSE ELSE @,
              !.compile = IF state < COMPILED THEN FALSE ELSE @]

\* mutant: reset() clears the flags of the stages that process items only
ResetFlagsStages(p) == [k \in DOMAIN p |-> IF k = "findMath" THEN p[k] ELSE FALSE]

\* mutant: the flags survive
ResetFlagsNone(p) == p

\* the flags after reset()
ResetFlags(p) == [k \in DOMAIN p |-> FALSE]

\* mutant: concat() starts the stages over
ConcatFlagsReset(p) == [k \in DOMAIN p |-> FALSE]

\* the flags after concat(list)
ConcatFlags(p) == p

NoHanded == [compile |-> {}, typeset |-> {}, updateDocument |-> {}]

\* history: forget the items handed to a stage whose flag was unset
Forget(h, p) == [s \in DOMAIN h |-> IF p[s] THEN h[s] ELSE {}]

\* the history a specification records: the calls of the last operation, or
\* the items handed to each stage
Calls == "calls"
Handed == "handed"

RecLast(hist, l) == IF hist = Calls THEN l ELSE last

RecHanded(hist, h) == IF hist = Handed THEN h ELSE handed

\* a document with the default handlers and the processors of its options: what
\* the compile of its InputJax and the typeset of its OutputJax can do
NewDocument(input, output) ==
    /\ math = <<>>
    /\ processed = [findMath |-> FALSE, compile |-> FALSE, typeset |-> FALSE,
                    getMetrics |-> FALSE, updateDocument |-> FALSE]
    /\ options = [compileError |-> "default", typesetError |-> "default",
                  InputJax |-> input, OutputJax |-> output]
    /\ last = [op |-> "new", threw |-> NoErr, log |-> <<>>, arg |-> 0]
    /\ handed = NoHanded

\* a document whose options give the handlers: the default ones, or ones that throw
InitHandlers ==
    /\ math = <<>>
    /\ processed = [findMath |-> FALSE, compile |-> FALSE, typeset |-> FALSE,
                    getMetrics |-> FALSE, updateDocument |-> FALSE]
    /\ \E ce, te \in Handlers :
          options = [compileError |-> ce, typesetError |-> te,
                     InputJax |-> AnyFailure, OutputJax |-> AnyFailure]
    /\ last = [op |-> "new", threw |-> NoErr, log |-> <<>>, arg |-> 0]
    /\ handed = NoHanded

InitDocument == NewDocument(AnyFailure, AnyFailure)

\* ------------------------------------------------------ the mfrac wrapper
\* lengths are whole numbers of Unit'ths of an em, so that the halves the
\* layouts take are exact
Unit == 2000

\* n thousandths of an em
Mil(n) == (n * Unit) \div 1000

\* a scale factor is a number of halves: 1 is 0.5, 2 is 1
Scaled(x, s) == (x * s) \div 2

Max(a, b) == IF a >= b THEN a ELSE b

\* font.params of the TeX font
TeXParams ==
    [num1 |-> Mil(676), num2 |-> Mil(394), num3 |-> Mil(444),
     denom1 |-> Mil(686), denom2 |-> Mil(345),
     rule_thickness |-> Mil(60), axis_height |-> Mil(250), nulldelimiterspace |-> Mil(120)]

\* the heights and depths of the children: 0 to MaxHalfEms half ems
Dims == {k * (Unit \div 2) : k \in 0..MaxHalfEms}

\* the factors scale and rscale of a child's box
Scales == {1, 2}

\* the resolved line thicknesses: none, medium, thick
Thicknesses == {0, Mil(60), Mil(120)}

\* BBox.empty()
BIGDIMEN == 1000000 * Unit

EmptyBBox == [w |-> 0, h |-> -BIGDIMEN, d |-> -BIGDIMEN]

\* BBox.combine(cbox, x, y)
Combine(b, c, x, y) ==
    [w |-> Max(b.w, x + Scaled(c.w, c.rscale)),
     h |-> Max(b.h, y + Scaled(c.h, c.rscale)),
     d |-> Max(b.d, Scaled(c.d, c.rscale) - y)]

\* BBox.clean()
Clean(b) ==
    [w |-> IF b.w = -BIGDIMEN THEN 0 ELSE b.w,
     h |-> IF b.h = -BIGDIMEN THEN 0 ELSE b.h,
     d |-> IF b.d = -BIGDIMEN THEN 0 ELSE b.d]

\* the box of a child wrapper
ChildBox(w, h, d, scale, rscale) ==
    [w |-> w, h |-> h, d |-> d, scale |-> scale, rscale |-> rscale]

NoBevel == [w |-> 0, h |-> 0, d |-> 0, scale |-> 0, rscale |-> 0]

\* the box of the bevel mo stretched to the height H: it straddles the axis
StretchedBevel(H, a) == ChildBox(Unit \div 2, H \div 2 + a, H \div 2 - a, 2, 2)

\* mutant: the script level is not looked at
IsDisplayAnyLevel(f) == f.displaystyle

\* isDisplay()
IsDisplay(f) == f.displaystyle /\ f.scriptlevel = 0

\* getTUV(display, t)
GetTUV(f, display, t) ==
    LET tex == f.font
        a == tex.axis_height
        T == ((IF display THEN 7 ELSE 3) * t) \div 2
    IN [T |-> T,
        u |-> (IF display THEN tex.num1 ELSE tex.num2) - a - T,
        v |-> (IF display THEN tex.denom1 ELSE tex.denom2) + a - T]

\* getFractionBBox(bbox, display, t)
GetFractionBBox(f, b, display, t) ==
    LET tex == f.font
        pad == IF f.withDelims THEN 0 ELSE tex.nulldelimiterspace
        a == tex.axis_height
        tuv == GetTUV(f, display, t)
        b1 == Combine(b, f.nbox, 0, a + tuv.T + Max(Scaled(f.nbox.d, f.nbox.rscale), tuv.u))
        b2 == Combine(b1, f.dbox, 0, a - tuv.T - Max(Scaled(f.dbox.h, f.dbox.rscale), tuv.v))
    IN [b2 EXCEPT !.w = @ + 2 * pad + Mil(200)]

\* mutant: the numerator alone is moved by the whole shortfall
GetUVQNumeratorOnly(f, display) ==
    LET tex == f.font
        u == IF display THEN tex.num1 ELSE tex.num3
        v == IF display THEN tex.denom1 ELSE tex.denom2
        p == (IF display THEN 7 ELSE 3) * tex.rule_thickness
        q == (u - Scaled(f.nbox.d, f.nbox.scale)) - (Scaled(f.dbox.h, f.dbox.scale) - v)
    IN IF q < p
       THEN [u |-> u + (p - q), v |-> v, q |-> p]
       ELSE [u |-> u, v |-> v, q |-> q]

\* getUVQ(display)
GetUVQ(f, display) ==
    LET tex == f.font
        u == IF display THEN tex.num1 ELSE tex.num3
        v == IF display THEN tex.denom1 ELSE tex.denom2
        p == (IF display THEN 7 ELSE 3) * tex.rule_thickness
        q == (u - Scaled(f.nbox.d, f.nbox.scale)) - (Scaled(f.dbox.h, f.dbox.scale) - v)
    IN IF q < p
       THEN [u |-> u + (p - q) \div 2, v |-> v + (p - q) \div 2, q |-> p]
       ELSE [u |-> u, v |-> v, q |-> q]

\* getAtopBBox(bbox, display)
GetAtopBBox(f, b, display) ==
    LET tex == f.font
        pad == IF f.withDelims THEN 0 ELSE tex.nulldelimiterspace
        r == GetUVQ(f, display)
        b1 == Combine(b, f.nbox, 0, r.u)
        b2 == Combine(b1, f.dbox, 0, -r.v)
    IN [b2 EXCEPT !.w = @ + 2 * pad]

\* mutant: the bevel is as high as the higher part, with no room around it
GetBevelDataTight(f, display) ==
    LET delta == IF display THEN Mil(400) ELSE Mil(150)
        a == f.font.axis_height
    IN [H |-> Max(Scaled(f.nbox.h + f.nbox.d, f.nbox.scale),
                  Scaled(f.dbox.h + f.dbox.d, f.dbox.scale)),
        delta |-> delta,
        u |-> Scaled(f.nbox.d - f.nbox.h, f.nbox.scale) \div 2 + a + delta,
        v |-> Scaled(f.dbox.d - f.dbox.h, f.dbox.scale) \div 2 + a - delta]

\* getBevelData(display)
GetBevelData(f, display) ==
    LET delta == IF display THEN Mil(400) ELSE Mil(150)
        a == f.font.axis_height
    IN [H |-> Max(Scaled(f.nbox.h + f.nbox.d, f.nbox.scale),
                  Scaled(f.dbox.h + f.dbox.d, f.dbox.scale)) + 2 * delta,
        delta |-> delta,
        u |-> Scaled(f.nbox.d - f.nbox.h, f.nbox.scale) \div 2 + a + delta,
        v |-> Scaled(f.dbox.d - f.dbox.h, f.dbox.scale) \div 2 + a - delta]

\* getBevelledBBox(bbox, display)
GetBevelledBBox(f, lbox, b, display) ==
    LET r == GetBevelData(f, display)
        b1 == Combine(b, f.nbox, 0, r.u)
        b2 == Combine(b1, lbox, b1.w - r.delta \div 2, 0)
    IN Combine(b2, f.dbox, b2.w - r.delta \div 2, r.v)

\* mutant: the line thickness is looked at before the bevelled attribute
LayoutThicknessFirst(f) ==
    IF f.linethickness = 0 THEN "getAtopBBox"
    ELSE IF f.bevelled THEN "getBevelledBBox"
    ELSE "getFractionBBox"

\* the layout computeBBox chooses
Layout(f) ==
    IF f.bevelled THEN "getBevelledBBox"
    ELSE IF f.linethickness = 0 THEN "getAtopBBox"
    ELSE "getFractionBBox"

\* ---------------------------------------------------------- the ms wrapper
\* the plain double quote, the default of lquote and rquote, and the
\* typographic marks U+201C and U+201D
PlainQuote == "\""
LeftMark == "U+201C"
RightMark == "U+201D"

\* the values of lquote and rquote: the default, and two others
QuoteValues == {PlainQuote, "'", "<<"}

\* an attribute of the node: what getList gives for it and what isSet says
Attr(value, set) == [value |-> value, isSet |-> set]

\* the kinds of the children of an ms node
MsKinds == {"text", "mglyph"}

\* a wrapper: its node's kind, its text, and its parent
Wrapper(kind, text, parent) == [kind |-> kind, text |-> text, parent |-> parent]

\* createText(text): the wrapped text node, with this as its parent
CreateText(text) == Wrapper("text", text, "this")

\* mutant: a plain double quote is replaced whether or not the attribute is set
QuoteReplaced(variant, attr, mark) ==
    IF variant # "monospace" /\ attr.value = PlainQuote THEN mark ELSE attr.value

\* the constructor: the quote to use for lquote or rquote
Quote(variant, attr, mark) ==
    IF variant # "monospace" /\ ~attr.isSet /\ attr.value = PlainQuote
    THEN mark ELSE attr.value

NoMs == [built |-> FALSE, variant |-> "", attributes |-> <<>>, childNodes |-> <<>>]

\* an ms wrapper before its constructor: the children are wrapped already
NewMs(variant, lquote, rquote, kids) ==
    [built |-> FALSE, variant |-> variant,
     attributes |-> [lquote |-> lquote, rquote |-> rquote],
     childNodes |-> [k \in 1..Len(kids) |-> Wrapper(kids[k], "", "this")]]

\* the constructor
ConstructMs ==
    /\ ms # NoMs /\ ~ms.built
    /\ ms' = [ms EXCEPT
                !.built = TRUE,
                !.childNodes =
                    <<CreateText(Quote(ms.variant, ms.attributes.lquote, LeftMark))>>
                    \o @
                    \o <<CreateText(Quote(ms.variant, ms.attributes.rquote, RightMark))>>]
    /\ UNCHANGED <<frac, bevel, bbox, trace, uvq, wpc, dvars, svars>>

NextMs == ConstructMs

NoUVQ == [called |-> FALSE, display |-> FALSE, u |-> 0, v |-> 0, q |-> 0]

\* no wrapper yet: the specifications that lay out nothing
NoWrapper ==
    /\ frac = <<>>
    /\ bevel = NoBevel
    /\ bbox = EmptyBBox
    /\ trace = <<>>
    /\ uvq = NoUVQ
    /\ wpc = "none"
    /\ ms = NoMs

InitWrapper(f) ==
    /\ frac = f
    /\ bevel = NoBevel
    /\ bbox = EmptyBBox
    /\ trace = <<>>
    /\ uvq = NoUVQ
    /\ wpc = "new"
    /\ ms = NoMs

\* the constructor
Construct ==
    /\ wpc = "new"
    /\ bevel' = IF frac.bevelled
                THEN StretchedBevel(GetBevelData(frac, IsDisplay(frac)).H, frac.font.axis_height)
                ELSE NoBevel
    /\ wpc' = "built"
    /\ UNCHANGED <<frac, bbox, trace, uvq, ms, dvars, svars>>

\* a call of getUVQ(display)
CallGetUVQ ==
    /\ wpc = "built"
    /\ \E display \in BOOLEAN :
          LET r == GetUVQ(frac, display)
          IN uvq' = [called |-> TRUE, display |-> display, u |-> r.u, v |-> r.v, q |-> r.q]
    /\ UNCHANGED <<frac, bevel, bbox, trace, wpc, ms, dvars, svars>>

\* computeBBox(bbox)
ComputeBBox ==
    /\ wpc = "built"
    /\ LET display == IsDisplay(frac)
           b0 == EmptyBBox
           b1 == IF Layout(frac) = "getBevelledBBox"
                 THEN GetBevelledBBox(frac, bevel, b0, display)
                 ELSE IF Layout(frac) = "getAtopBBox" THEN GetAtopBBox(frac, b0, display)
                 ELSE GetFractionBBox(frac, b0, display, frac.linethickness)
       IN /\ bbox' = Clean(b1)
          /\ trace' = <<"empty", Layout(frac), "clean">>
    /\ wpc' = "done"
    /\ UNCHANGED <<frac, bevel, uvq, ms, dvars, svars>>

NextFrac ==
    \/ Construct
    \/ CallGetUVQ
    \/ ComputeBBox

\* ------------------------------------------------------- the host tree
\* a node of the host tree: its parent (0 at the top), what adaptor.kind,
\* getAttribute and value return for it
HostNode(p, l) ==
    [parent |-> p, kind |-> l.kind, class |-> l.class, attrs |-> l.attrs, value |-> l.value]

Label(k, c, a, v) == [kind |-> k, class |-> c, attrs |-> a, value |-> v]

TextAB == Label("#text", {}, {}, <<"a", "b">>)
TextSpace == Label("#text", {}, {}, <<" ">>)
Br == Label("br", {}, {}, <<>>)
Comment == Label("#comment", {}, {}, <<>>)
Span == Label("span", {}, {}, <<>>)
SpanIgnore == Label("span", {"tex2jax_ignore"}, {}, <<>>)
SpanProcess == Label("span", {"tex2jax_process"}, {}, <<>>)
Pre == Label("pre", {}, {}, <<>>)
PreProcess == Label("pre", {"tex2jax_process"}, {}, <<>>)
SpanMJX == Label("span", {}, {"data-MJX"}, <<>>)
SpanMjxError == Label("span", {}, {"data-mjx-error"}, <<>>)

\* the nodes that can have children
Elements == {Span, SpanIgnore, SpanProcess, Pre, PreProcess, SpanMJX, SpanMjxError}
\* the nodes without children (every childless element is scanned like Span)
Leaves == {TextAB, TextSpace, Br, Comment, Span}

IsElement(n) == n.kind \notin {"#text", "#comment", "br", "wbr"}

RECURSIVE PathUp(_, _)
\* a node and its ancestors, in a vector of parents
PathUp(par, n) == IF n = 0 THEN {} ELSE {n} \cup PathUp(par, par[n])

\* the shapes of the trees of n nodes numbered in document order: a node is a
\* child of the node before it or of one of that node's ancestors
Shapes(n) ==
    {par \in [1..n -> 0..(n - 1)] :
        /\ par[1] = 0
        /\ \A i \in 2..n : par[i] \in PathUp(par, i - 1)}

Parents(par) == {par[i] : i \in DOMAIN par} \ {0}

\* the tree of a shape, its elements' labels and its leaves' labels
MakeTree(par, e, l) ==
    [i \in DOMAIN par |-> HostNode(par[i], IF i \in Parents(par) THEN e[i] ELSE l[i])]

\* the host tree: node 1 is the root to scan, with or without a sibling after it
MakeHost(t, sibling) == IF sibling THEN Append(t, HostNode(0, TextAB)) ELSE t

HasChild(h, n) == n < Len(h) /\ h[n + 1].parent = n

\* ------------------------------------------------------------ DOMAdaptor
\* adaptor.next
NextSibling(h, n) ==
    LET later == {m \in (n + 1)..Len(h) : h[m].parent = h[n].parent}
    IN IF later = {} THEN 0 ELSE CHOOSE m \in later : \A k \in later : m <= k

\* adaptor.firstChild
FirstChild(h, n) == IF HasChild(h, n) THEN n + 1 ELSE 0

\* -------------------------------------------------------- HTMLDomStrings
\* OPTIONS.skipTags
SkipTags == {"script", "noscript", "style", "textarea", "pre", "code",
             "annotation", "annotation-xml"}

\* OPTIONS.includeTags: the kinds that have a replacement text
IncludeTags == {"br", "wbr", "#comment"}

IncludeText(k) == IF k = "br" THEN <<"\n">> ELSE <<>>

\* what \S does not match
WhiteSpace == {" ", "\n", "\t"}

\* the fields init() sets
Fields(ss, str, sn, ns, st) ==
    [strings |-> ss, string |-> str, snodes |-> sn, nodes |-> ns, stack |-> st]

\* mutant: init() keeps the strings and the lists already collected
InitFieldsKeep == Fields(strings, <<>>, <<>>, nodes, <<>>)

InitFields == Fields(<<>>, <<>>, <<>>, <<>>, <<>>)

\* mutant: the provenance list is recorded whether or not the string is
PushStringUnpaired(f) ==
    IF \E k \in 1..Len(f.string) : f.string[k] \notin WhiteSpace
    THEN [f EXCEPT !.strings = Append(@, f.string), !.nodes = Append(@, f.snodes),
                   !.string = <<>>, !.snodes = <<>>]
    ELSE [f EXCEPT !.nodes = Append(@, f.snodes), !.string = <<>>, !.snodes = <<>>]

\* mutant: the string is recorded whatever it holds
PushStringAlways(f) ==
    [f EXCEPT !.strings = Append(@, f.string), !.nodes = Append(@, f.snodes),
              !.string = <<>>, !.snodes = <<>>]

\* pushString()
PushString(f) ==
    IF \E k \in 1..Len(f.string) : f.string[k] \notin WhiteSpace
    THEN [f EXCEPT !.strings = Append(@, f.string), !.nodes = Append(@, f.snodes),
                   !.string = <<>>, !.snodes = <<>>]
    ELSE [f EXCEPT !.string = <<>>, !.snodes = <<>>]

\* mutant: the node is recorded with its position in the string
ExtendStringPosition(f, n, text) ==
    [f EXCEPT !.snodes = Append(@, <<n, Len(f.string \o text)>>), !.string = @ \o text]

\* extendString(node, text)
ExtendString(f, n, text) ==
    [f EXCEPT !.snodes = Append(@, <<n, Len(text)>>), !.string = @ \o text]

Step(f, n, i) == [f |-> f, node |-> n, ignore |-> i]

\* handleText(node, ignore)
HandleText(h, f, n, ign) ==
    Step(IF ~ign THEN ExtendString(f, n, h[n].value) ELSE f, NextSibling(h, n), ign)

\* mutant: a tag with an empty replacement text is not recorded
HandleTagNonEmpty(h, f, n, ign) ==
    Step(IF ~ign /\ IncludeText(h[n].kind) # <<>>
         THEN ExtendString(f, n, IncludeText(h[n].kind)) ELSE f,
         NextSibling(h, n), ign)

\* handleTag(node, ignore)
HandleTag(h, f, n, ign) ==
    Step(IF ~ign THEN ExtendString(f, n, IncludeText(h[n].kind)) ELSE f,
         NextSibling(h, n), ign)

\* mutant: a skip-tag is descended into like any other container
RestartsAlways(h, n, process) == TRUE

\* handleContainer: process || !this.skipTags.exec(tname)
Restarts(h, n, process) == process \/ h[n].kind \notin SkipTags

\* handleContainer: the node is marked as created by MathJax
EngineNode(h, n) == "data-MJX" \in h[n].attrs

\* mutant: an ignored region stays ignored below a process-class node
ChildIgnoreSticky(h, n, ign, process) == ign \/ "tex2jax_ignore" \in h[n].class

\* handleContainer: the ignore flag of the children
ChildIgnore(h, n, ign, process) == (ign \/ "tex2jax_ignore" \in h[n].class) /\ ~process

\* mutant: the next sibling is pushed whether or not there is one
HandleContainerAlwaysPush(h, f, n, ign) ==
    LET f1 == PushString(f)
        process == "tex2jax_process" \in h[n].class
    IN IF /\ FirstChild(h, n) # 0
          /\ ~EngineNode(h, n)
          /\ Restarts(h, n, process)
       THEN Step([f1 EXCEPT !.stack = Append(@, <<NextSibling(h, n), ign>>)],
                 FirstChild(h, n),
                 ChildIgnore(h, n, ign, process))
       ELSE Step(f1, NextSibling(h, n), ign)

\* mutant: the string is flushed only when the container is descended into
HandleContainerLateFlush(h, f, n, ign) ==
    LET f1 == PushString(f)
        process == "tex2jax_process" \in h[n].class
    IN IF /\ FirstChild(h, n) # 0
          /\ ~EngineNode(h, n)
          /\ Restarts(h, n, process)
       THEN Step(IF NextSibling(h, n) # 0
                 THEN [f1 EXCEPT !.stack = Append(@, <<NextSibling(h, n), ign>>)]
                 ELSE f1,
                 FirstChild(h, n),
                 ChildIgnore(h, n, ign, process))
       ELSE Step(f, NextSibling(h, n), ign)

\* handleContainer(node, ignore)
HandleContainer(h, f, n, ign) ==
    LET f1 == PushString(f)
        process == "tex2jax_process" \in h[n].class
    IN IF /\ FirstChild(h, n) # 0
          /\ ~EngineNode(h, n)
          /\ Restarts(h, n, process)
       THEN Step(IF NextSibling(h, n) # 0
                 THEN [f1 EXCEPT !.stack = Append(@, <<NextSibling(h, n), ign>>)]
                 ELSE f1,
                 FirstChild(h, n),
                 ChildIgnore(h, n, ign, process))
       ELSE Step(f1, NextSibling(h, n), ign)

\* mutant: the pair read from the stack stays on it
PopKept(st) == st

\* the stack after this.stack.pop()
Pop(st) == SubSeq(st, 1, Len(st) - 1)

\* one pass of the body of the while loop of find()
LoopBody(h, f, n, ign) ==
    LET r == IF h[n].kind = "#text" THEN HandleText(h, f, n, ign)
             ELSE IF h[n].kind \in IncludeTags THEN HandleTag(h, f, n, ign)
             ELSE HandleContainer(h, f, n, ign)
    IN IF r.node = 0 /\ Len(r.f.stack) > 0
       THEN LET f2 == PushString(r.f)
                top == f2.stack[Len(f2.stack)]
            IN Step([f2 EXCEPT !.stack = Pop(@)], top[1], top[2])
       ELSE r

NoResult == [strings |-> <<>>, nodes |-> <<>>]

InitScanner(h) ==
    /\ host = h
    /\ strings = <<>> /\ string = <<>> /\ snodes = <<>> /\ nodes = <<>> /\ stack = <<>>
    /\ node = 0 /\ ignore = FALSE /\ stop = 0
    /\ pc = "idle"
    /\ result = NoResult
    /\ scanned = [finds |-> 0, visited |-> <<>>, before |-> NoResult]

SetFields(f) ==
    /\ strings' = f.strings
    /\ string' = f.string
    /\ snodes' = f.snodes
    /\ nodes' = f.nodes
    /\ stack' = f.stack

\* mutant: the scan has no node to stop at
StopNodeNone(h, n) == 0

\* find(node): let stop = this.adaptor.next(node)
StopNode(h, n) == NextSibling(h, n)

\* find(node): up to the while loop
FindBegin(max) ==
    /\ pc = "idle"
    /\ scanned.finds < max
    /\ SetFields(InitFields)
    /\ node' = 1
    /\ stop' = StopNode(host, 1)
    /\ ignore' = FALSE
    /\ pc' = "loop"
    /\ scanned' = [finds |-> scanned.finds + 1, visited |-> <<>>, before |-> result]
    /\ UNCHANGED <<host, result, dvars, wvars>>

\* find(node): one pass of the while loop
FindLoop ==
    /\ pc = "loop"
    /\ node # 0 /\ node # stop
    /\ LET r == LoopBody(host, Fields(strings, string, snodes, nodes, stack), node, ignore)
       IN /\ SetFields(r.f)
          /\ node' = r.node
          /\ ignore' = r.ignore
    /\ scanned' = [scanned EXCEPT !.visited = Append(@, node)]
    /\ UNCHANGED <<host, stop, pc, result, dvars, wvars>>

\* find(node): after the while loop
FindEnd ==
    /\ pc = "loop"
    /\ ~(node # 0 /\ node # stop)
    /\ LET f == PushString(Fields(strings, string, snodes, nodes, stack))
       IN result' = [strings |-> f.strings, nodes |-> f.nodes]
    /\ SetFields(InitFields)
    /\ pc' = "idle"
    /\ UNCHANGED <<host, node, ignore, stop, scanned, dvars, wvars>>

NextScan ==
    \/ FindBegin(1)
    \/ FindLoop
    \/ FindEnd

InitScan ==
    /\ InitDocument
    /\ NoWrapper
    /\ \E n \in 1..MaxNodes :
          \E par \in Shapes(n) :
             \E e \in [Parents(par) -> Elements], l \in [(1..n) \ Parents(par) -> Leaves],
                sibling \in BOOLEAN :
                InitScanner(MakeHost(MakeTree(par, e, l), sibling))

SpecScan == InitScan /\ [][NextScan]_vars

\* the nodes of the subtrees of texts, include tags and skip tags
TextElements == {Span, Pre, PreProcess}

InitText ==
    /\ InitDocument
    /\ NoWrapper
    /\ \E n \in 1..MaxTextNodes :
          \E par \in Shapes(n) :
             \E e \in [Parents(par) -> TextElements],
                l \in [(1..n) \ Parents(par) -> Leaves],
                sibling \in BOOLEAN :
                InitScanner(MakeHost(MakeTree(par, e, l), sibling))

\* find() called once on a subtree of texts
NextText ==
    \/ FindBegin(1)
    \/ FindLoop
    \/ FindEnd

SpecText == InitText /\ [][NextText]_vars

\* the nodes of the subtrees whose shape decides where the scan goes: containers
\* descended into or not, nodes with and without children
LiveElements == {Span, Pre}
LiveLeaves == {TextAB, Span}

InitLive ==
    /\ InitDocument
    /\ NoWrapper
    /\ \E n \in 1..MaxLiveNodes :
          \E par \in Shapes(n) :
             \E e \in [Parents(par) -> LiveElements],
                l \in [(1..n) \ Parents(par) -> LiveLeaves],
                sibling \in BOOLEAN :
                InitScanner(MakeHost(MakeTree(par, e, l), sibling))

\* find() runs on: a loop that can take a pass takes it, and the code after
\* the loop runs when the loop is left
SpecLive == InitLive /\ [][NextText]_vars /\ WF_vars(FindLoop) /\ WF_vars(FindEnd)

\* the nodes of the subtrees of nested ignore-class and process-class regions
NestElements == {Span, SpanIgnore, SpanProcess}
NestLeaves == {TextAB, Span}

InitNest ==
    /\ InitDocument
    /\ NoWrapper
    /\ \E n \in 1..MaxNestNodes :
          \E par \in Shapes(n) :
             \E e \in [Parents(par) -> NestElements],
                l \in [(1..n) \ Parents(par) -> NestLeaves],
                sibling \in BOOLEAN :
                InitScanner(MakeHost(MakeTree(par, e, l), sibling))

\* find() called again and again on a subtree
NextNest ==
    \/ FindBegin(MaxFinds)
    \/ FindLoop
    \/ FindEnd

SpecNest == InitNest /\ [][NextNest]_vars
\* every operation, with an input processor that fails in any way and an output
\* processor whose failures are flagged retry or restart
Init == NewDocument(AnyFailure, Propagating) /\ InitScanner(<<>>) /\ NoWrapper

\* the passes over the items, with processors that fail in any way
InitPass == InitDocument /\ InitScanner(<<>>) /\ NoWrapper

InitFrac ==
    /\ InitDocument
    /\ InitScanner(<<>>)
    /\ \E displaystyle, bevelled, withDelims \in BOOLEAN, scriptlevel \in 0..MaxScriptLevel,
          t \in Thicknesses, nh, nd, dh, dd \in Dims, ns, ds \in Scales :
          \* the fraction is at scale 1: a child's scale is its scale relative to it
          InitWrapper([displaystyle |-> displaystyle, scriptlevel |-> scriptlevel,
                       bevelled |-> bevelled, linethickness |-> t, withDelims |-> withDelims,
                       nbox |-> ChildBox(Unit \div 2, nh, nd, ns, ns),
                       dbox |-> ChildBox(Unit \div 2, dh, dd, ds, ds),
                       font |-> TeXParams])

SpecFrac == InitFrac /\ [][NextFrac]_vars

InitMs ==
    /\ InitDocument
    /\ InitScanner(<<>>)
    /\ frac = <<>> /\ bevel = NoBevel /\ bbox = EmptyBBox /\ trace = <<>>
    /\ uvq = NoUVQ /\ wpc = "none"
    /\ \E variant \in {"normal", "monospace"}, lv, rv \in QuoteValues, ls, rs \in BOOLEAN,
          n \in 0..MaxMsChildren :
          \E kids \in [1..n -> MsKinds] :
             ms = NewMs(variant, Attr(lv, ls), Attr(rv, rs), kids)

SpecMs == InitMs /\ [][NextMs]_vars

FindMath(hist) ==
    /\ processed' = [processed EXCEPT !.findMath = TRUE]
    /\ last' = RecLast(hist, [op |-> "findMath", threw |-> NoErr, log |-> <<>>, arg |-> 0])
    /\ UNCHANGED <<math, options, handed, svars, wvars>>

Compile(hist) ==
    \E r \in IF CompileGuard(processed)
             THEN CompileLoop(math, 1, <<>>, options.compileError)
             ELSE {Ret(math, <<>>, NoErr)} :
           /\ math' = r.math
           /\ processed' = IF CompileGuard(processed) /\ r.threw = NoErr
                           THEN CompileDone(processed) ELSE processed
           /\ last' = RecLast(hist, [op |-> "compile", threw |-> r.threw, log |-> r.log, arg |-> 0])
           /\ handed' = RecHanded(hist, [handed EXCEPT !.compile = @ \cup Ids(r.log, "compile")])
           /\ UNCHANGED <<options, svars, wvars>>

GetMetrics(hist) ==
    \E oc \in IF GetMetricsGuard(processed) THEN Outcomes ELSE {NoErr} :
        LET call == GetMetricsGuard(processed)
            threw == IF call THEN oc ELSE NoErr
        IN /\ processed' = IF call /\ threw = NoErr
                           THEN GetMetricsDone(processed) ELSE processed
           /\ last' = RecLast(hist, [op |-> "getMetrics", threw |-> threw,
                       log |-> IF call THEN <<Ev("getMetrics", 0, oc)>> ELSE <<>>, arg |-> 0])
           /\ UNCHANGED <<math, options, handed, svars, wvars>>

Typeset(hist) ==
    \E r \in IF TypesetGuard(processed)
             THEN TypesetLoop(math, 1, <<>>, options.typesetError)
             ELSE {Ret(math, <<>>, NoErr)} :
           /\ math' = r.math
           /\ processed' = IF TypesetGuard(processed) /\ r.threw = NoErr
                           THEN TypesetDone(processed) ELSE processed
           /\ last' = RecLast(hist, [op |-> "typeset", threw |-> r.threw, log |-> r.log, arg |-> 0])
           /\ handed' = RecHanded(hist, [handed EXCEPT !.typeset = @ \cup Ids(r.log, "typeset")])
           /\ UNCHANGED <<options, svars, wvars>>

UpdateDocument(hist) ==
    \E r \in IF UpdateDocumentGuard(processed)
             THEN UpdateLoop(math, 1, <<>>)
             ELSE {Ret(math, <<>>, NoErr)} :
           /\ math' = r.math
           /\ processed' = IF UpdateDocumentGuard(processed) /\ r.threw = NoErr
                           THEN UpdateDocumentDone(processed) ELSE processed
           /\ last' = RecLast(hist, [op |-> "updateDocument", threw |-> r.threw, log |-> r.log, arg |-> 0])
           /\ handed' = RecHanded(hist, [handed EXCEPT
                           !.updateDocument = @ \cup Ids(r.log, "updateDocument")])
           /\ UNCHANGED <<options, svars, wvars>>

RemoveFromDocument(hist) ==
    \E restore \in BOOLEAN :
        /\ last' = RecLast(hist, [op |-> "removeFromDocument", threw |-> NoErr, log |-> <<>>, arg |-> 0])
        /\ UNCHANGED <<math, processed, options, handed, svars, wvars>>

State(hist) ==
    \E state \in States, restore \in BOOLEAN :
        /\ math' = [i \in 1..Len(math) |-> ItemState(math[i], state, restore)]
        /\ processed' = StateFlags(processed, state)
        /\ last' = RecLast(hist, [op |-> "state", threw |-> NoErr, log |-> <<>>, arg |-> state])
        /\ handed' = RecHanded(hist, Forget(handed, processed'))
        /\ UNCHANGED <<options, svars, wvars>>

Reset(hist) ==
    /\ processed' = ResetFlags(processed)
    /\ last' = RecLast(hist, [op |-> "reset", threw |-> NoErr, log |-> <<>>, arg |-> 0])
    /\ handed' = RecHanded(hist, NoHanded)
    /\ UNCHANGED <<math, options, svars, wvars>>

Clear(hist) ==
    /\ processed' = ResetFlags(processed)
    /\ math' = <<>>
    /\ last' = RecLast(hist, [op |-> "clear", threw |-> NoErr, log |-> <<>>, arg |-> 0])
    /\ handed' = RecHanded(hist, NoHanded)
    /\ UNCHANGED <<options, svars, wvars>>

Concat(max, hist) ==
    \E n \in 0..(max - Len(math)) :
        /\ math' = Merge(math, [k \in 1..n |-> NewItem(Len(math) + k, (Len(math) + k) % 2 = 1)])
        /\ processed' = ConcatFlags(processed)
        /\ last' = RecLast(hist, [op |-> "concat", threw |-> NoErr, log |-> <<>>, arg |-> n])
        /\ UNCHANGED <<options, handed, svars, wvars>>

Next ==
    \/ FindMath(Calls)
    \/ Compile(Calls)
    \/ GetMetrics(Calls)
    \/ Typeset(Calls)
    \/ UpdateDocument(Calls)
    \/ RemoveFromDocument(Calls)
    \/ State(Calls)
    \/ Reset(Calls)
    \/ Clear(Calls)
    \/ Concat(MaxItems, Calls)

Spec == Init /\ [][Next]_vars

\* the stage operations alone, on longer lists
NextPass ==
    \/ Compile(Calls)
    \/ GetMetrics(Calls)
    \/ Typeset(Calls)
    \/ UpdateDocument(Calls)
    \/ Concat(MaxPassItems, Calls)

SpecPass == InitPass /\ [][NextPass]_vars

InitThrows == InitHandlers /\ InitScanner(<<>>) /\ NoWrapper

\* compile() and typeset() of a document with the handlers of its options
NextThrows ==
    \/ Compile(Calls)
    \/ Typeset(Calls)
    \/ Concat(MaxPassItems, Calls)

SpecThrows == InitThrows /\ [][NextThrows]_vars

\* every operation, recording the items handed to each stage
NextHanded ==
    \/ FindMath(Handed)
    \/ Compile(Handed)
    \/ GetMetrics(Handed)
    \/ Typeset(Handed)
    \/ UpdateDocument(Handed)
    \/ RemoveFromDocument(Handed)
    \/ State(Handed)
    \/ Reset(Handed)
    \/ Clear(Handed)
    \/ Concat(MaxItems, Handed)

SpecHanded == Init /\ [][NextHanded]_vars

ScanTypeOK ==
    /\ pc \in {"idle", "loop"}
    /\ node \in 0..Len(host)
    /\ Len(strings) = Len(nodes)

TypeOK ==
    /\ Len(math) <= MaxPassItems
    /\ \A i \in 1..Len(math) : math[i].id = i /\ math[i].state \in States

\* ------------------------------------------------------------ properties
StageOps == {"compile", "getMetrics", "typeset", "updateDocument"}

\* a failure flagged retry or restart
Propagates(err) == err.retry \/ err.restart

\* no call of the log threw a failure flagged retry or restart
NoAbort(log) == \A k \in 1..Len(log) : ~Propagates(log[k].err)

Has(log, e, i, err) == \E k \in 1..Len(log) : log[k] = Ev(e, i, err)

\* the items of the log's events of one kind, in the order of the calls
EvIds(log, e) ==
    LET sel == SelectSeq(log, LAMBDA x : x.ev = e)
    IN [k \in 1..Len(sel) |-> sel[k].id]

ItemIds(m) == [k \in 1..Len(m) |-> m[k].id]

\* C1: a stage operation that returns normally sets its flag, and a call of a
\* stage operation whose flag is set makes no call at all (no item's compile,
\* typeset or updateDocument, no outputJax.getMetrics), throws nothing and
\* leaves the flags and the items as they were.
C1_StageIdempotent ==
    [][\A s \in StageOps :
          /\ (last'.op = s /\ last'.threw = NoErr) => processed'[s]
          /\ (last'.op = s /\ processed[s]) =>
                /\ last'.log = <<>>
                /\ last'.threw = NoErr
                /\ math' = math
                /\ processed' = processed]_vars

C1_SecondCall ==
    /\ last.op = "compile" /\ last.log = <<>> /\ last.threw = NoErr
    /\ processed.compile /\ Len(math) > 0

\* C2: a compile() pass in which an item's compilation throws a failure flagged
\* neither retry nor restart (and none throws a flagged one) hands every item to
\* compile in document order, compiles every item whose compilation did not
\* throw, returns normally and sets processed.compile; a typeset() or
\* updateDocument() pass in which nothing flagged is thrown hands every item of
\* the list to its stage.
C2_CompileIsolation ==
    [][/\ (/\ last'.op = "compile" /\ ~processed.compile
           /\ NoAbort(last'.log)
           /\ \E k \in 1..Len(last'.log) : last'.log[k] = Ev("inputJax", last'.log[k].id, FatalErr))
          => /\ last'.threw = NoErr
             /\ processed'.compile
             /\ EvIds(last'.log, "compile") = ItemIds(math)
             /\ \A i \in 1..Len(math) :
                   Has(last'.log, "inputJax", math[i].id, NoErr)
                      => math'[i].state = COMPILED /\ math'[i].root = MmlRoot
       /\ (last'.op = "typeset" /\ ~processed.typeset /\ NoAbort(last'.log))
          => /\ processed'.typeset
             /\ EvIds(last'.log, "typeset") = ItemIds(math)
             /\ \A i \in 1..Len(math) :
                   math[i].state < TYPESET
                      => \E err \in Outcomes : Has(last'.log, "outputJax", math[i].id, err)
       /\ (last'.op = "updateDocument" /\ ~processed.updateDocument /\ last'.threw = NoErr)
          => /\ processed'.updateDocument
             /\ Ids(last'.log, "updateDocument") = {math[i].id : i \in 1..Len(math)}
             /\ \A i \in 1..Len(math) : math'[i].state = INSERTED]_vars

C2_ErrorAndInserted ==
    /\ last.op = "updateDocument" /\ last.threw = NoErr /\ Len(last.log) >= 2
    /\ processed.compile /\ processed.typeset /\ processed.updateDocument
    /\ \E i, j \in 1..Len(math) :
          /\ math[i].inputError = FatalErr /\ math[i].root.text = "Math input error"
          /\ math[j].inputError = NoErr /\ math[j].root = MmlRoot
    /\ \A i \in 1..Len(math) : math[i].state = INSERTED /\ math[i].typesetRoot = OutNode

\* the processor call and the error handler of a stage with per-item isolation
JaxOf(s) == IF s = "compile" THEN "inputJax" ELSE "outputJax"
HandlerOf(s) == IF s = "compile" THEN "compileError" ELSE "typesetError"

\* C3: when an item's processor call throws a failure flagged retry or restart
\* during compile() or typeset(), that call is the last thing the operation
\* does (no handler, no later item), the operation throws that same failure,
\* the failing item and the items after it are left as they were (no error
\* recorded), and the stage's flag stays false.
C3_RetryPropagates ==
    [][\A s \in {"compile", "typeset"} :
          last'.op = s =>
             \A k \in 1..Len(last'.log) :
                (last'.log[k].ev = JaxOf(s) /\ Propagates(last'.log[k].err))
                   => /\ k = Len(last'.log)
                      /\ last'.threw = last'.log[k].err
                      /\ ~processed'[s]
                      /\ ~Has(last'.log, HandlerOf(s), last'.log[k].id, last'.log[k].err)
                      /\ \A i \in 1..Len(math) :
                            math[i].id >= last'.log[k].id
                               => /\ math'[i] = math[i]
                                  /\ (math[i].id > last'.log[k].id
                                         => math[i].id \notin Ids(last'.log, s))]_vars

C3_AbortedAtFirst ==
    /\ last.op = "compile" /\ last.threw = RestartErr /\ ~processed.compile
    /\ Len(math) >= 2 /\ last.log[Len(last.log)].id = 1
    /\ math[1].inputError = NoErr /\ math[1].root = NoRoot
    /\ math[2].state = FOUND /\ math[2].root = NoRoot

\* the stage a flag belongs to, as a MathItem state
StageState(f) ==
    CASE f = "updateDocument" -> INSERTED
      [] f = "typeset" -> TYPESET
      [] f = "getMetrics" -> TYPESET
      [] f = "compile" -> COMPILED

\* C4: state(target, restore) clears the flags of compile, getMetrics, typeset
\* and updateDocument whose stage is strictly above target and leaves every
\* other flag (findMath included) as it was.
C4_StateClearsAbove ==
    [][last'.op = "state" =>
          /\ processed'.findMath = processed.findMath
          /\ \A f \in StageOps :
                processed'[f] = IF last'.arg < StageState(f) THEN FALSE ELSE processed[f]]_vars

C4_RolledBackToCompiled ==
    /\ last.op = "state" /\ last.arg = COMPILED
    /\ processed.findMath /\ processed.compile
    /\ ~processed.typeset /\ ~processed.getMetrics /\ ~processed.updateDocument
    /\ Len(math) > 0
    /\ \A i \in 1..Len(math) :
          math[i].state = COMPILED /\ math[i].root = MmlRoot /\ math[i].typesetRoot = OutNode

\* C5: whenever the flag of compile, typeset or updateDocument is set, every
\* item of the MathList has been handed to that stage since the flag was last
\* unset.
C5_FlagMeansFullPass ==
    \A s \in {"compile", "typeset", "updateDocument"} :
       processed[s] => \A i \in 1..Len(math) : math[i].id \in handed[s]

\* C6: an updateDocument() pass calls the items' updateDocument in reverse
\* document order, each once, stops at the first that throws, and sets the flag
\* exactly when the first item of the document was reached and updated.
C6_ReverseOrder ==
    [][(last'.op = "updateDocument" /\ ~processed.updateDocument) =>
          /\ Len(last'.log) <= Len(math)
          /\ \A k \in 1..Len(last'.log) :
                /\ last'.log[k].ev = "updateDocument"
                /\ last'.log[k].id = math[Len(math) + 1 - k].id
          /\ processed'.updateDocument
                <=> (Len(last'.log) = Len(math) /\ last'.threw = NoErr)]_vars

C6_LastItemFirst ==
    /\ last.op = "updateDocument" /\ processed.updateDocument
    /\ Len(math) = 2 /\ Len(last.log) = 2
    /\ last.log[1].id = math[2].id /\ last.log[2].id = math[1].id

\* C7 as claimed: a compile() (typeset()) called again after a pass that a
\* retry or restart failure aborted skips the items that completed the stage
\* and ends with the stage's flag set.
C7_RerunSetsFlag ==
    [][\A s \in {"compile", "typeset"} :
          (last.op = s /\ Propagates(last.threw) /\ last'.op = s)
             => /\ \A i \in 1..Len(math) :
                      math[i].state >= StageState(s)
                         => /\ \A err \in Outcomes : ~Has(last'.log, JaxOf(s), math[i].id, err)
                            /\ math'[i] = math[i]
                /\ processed'[s]]_vars

\* C7 amended: the re-run skips the items that completed the stage; it ends with
\* the stage's flag set when it returns normally, and with the flag unset when a
\* retry or restart failure aborts it again.
C7_RerunSkipsCompleted ==
    [][\A s \in {"compile", "typeset"} :
          (last.op = s /\ Propagates(last.threw) /\ last'.op = s)
             => /\ \A i \in 1..Len(math) :
                      math[i].state >= StageState(s)
                         => /\ \A err \in Outcomes : ~Has(last'.log, JaxOf(s), math[i].id, err)
                            /\ math'[i] = math[i]
                /\ last'.threw = NoErr => processed'[s]
                /\ Propagates(last'.threw) => ~processed'[s]]_vars

C7_RerunCompleted ==
    /\ last.op = "compile" /\ last.threw = NoErr /\ processed.compile
    /\ Len(math) = 2
    /\ last.log = <<Ev("compile", 1, NoErr), Ev("compile", 2, NoErr), Ev("inputJax", 2, NoErr)>>
    /\ math[1].root = MmlRoot /\ math[2].root = MmlRoot
    /\ ~processed.typeset /\ ~processed.updateDocument

\* C8: in typeset(), an item's failure flagged neither retry nor restart is
\* followed by the typesetError handler for that item, which leaves the item
\* with the error span 'Math output error' as typesetRoot, and the failure is
\* stored as the item's outputData.error; a pass in which nothing flagged is
\* thrown typesets every other item and sets processed.typeset.
C8_TypesetIsolation ==
    [][last'.op = "typeset" =>
          /\ \A k \in 1..Len(last'.log) :
                (last'.log[k].ev = "outputJax" /\ last'.log[k].err = FatalErr)
                   => /\ k < Len(last'.log)
                      /\ last'.log[k + 1] = Ev("typesetError", last'.log[k].id, FatalErr)
                      /\ \A i \in 1..Len(math) :
                            math[i].id = last'.log[k].id
                               => /\ math'[i].typesetRoot.kind = "span"
                                  /\ math'[i].typesetRoot.text = "Math output error"
                                  /\ math'[i].outputError = FatalErr
          /\ (~processed.typeset /\ NoAbort(last'.log))
                => /\ last'.threw = NoErr
                   /\ processed'.typeset
                   /\ EvIds(last'.log, "typeset") = ItemIds(math)
                   /\ \A i \in 1..Len(math) :
                         Has(last'.log, "outputJax", math[i].id, NoErr)
                            => math'[i].typesetRoot = OutNode /\ math'[i].state = TYPESET]_vars

C8_ErrorThenTypeset ==
    /\ last.op = "typeset" /\ last.threw = NoErr /\ processed.typeset
    /\ Len(math) = 2
    /\ Has(last.log, "typesetError", 1, FatalErr) /\ Has(last.log, "outputJax", 2, NoErr)
    /\ math[1].typesetRoot.text = "Math output error" /\ math[1].outputError = FatalErr
    /\ math[2].typesetRoot = OutNode /\ math[2].state = TYPESET

\* C9: a processed flag goes from true to false only in a step of state(),
\* reset() or clear(); no other operation unsets a flag, also when it throws.
C9_FlagsMonotone ==
    [][\A f \in DOMAIN processed :
          (processed[f] /\ ~processed'[f]) => last'.op \in {"state", "reset", "clear"}]_vars

C9_ThrewWithFlagsKept ==
    /\ last.op = "typeset" /\ last.threw = RetryErr
    /\ processed.findMath /\ processed.compile /\ processed.getMetrics
    /\ Len(math) > 0

\* the text a node contributes to a string
Contributed(h, n) == IF h[n].kind = "#text" THEN h[n].value ELSE IncludeText(h[n].kind)

RECURSIVE SumLengths(_)
\* the sum of the consumed lengths of a provenance list
SumLengths(sn) == IF sn = <<>> THEN 0 ELSE sn[1][2] + SumLengths(Tail(sn))

RECURSIVE ConcatTexts(_, _)
\* the texts contributed by the nodes of a provenance list, concatenated in order
ConcatTexts(h, sn) ==
    IF sn = <<>> THEN <<>> ELSE Contributed(h, sn[1][1]) \o ConcatTexts(h, Tail(sn))

\* a string and its provenance list agree
Agree(h, str, sn) ==
    /\ SumLengths(sn) = Len(str)
    /\ ConcatTexts(h, sn) = str
    /\ \A j \in 1..Len(sn) : sn[j][2] = Len(Contributed(h, sn[j][1]))

RECURSIVE ProvenanceNodes(_)
\* the nodes of the provenance lists of a result, list after list
ProvenanceNodes(ns) ==
    IF ns = <<>> THEN <<>>
    ELSE [j \in 1..Len(ns[1]) |-> ns[1][j][1]] \o ProvenanceNodes(Tail(ns))

\* nodes are numbered in document order
DocumentOrder(seq) == \A i, j \in 1..Len(seq) : i < j => seq[i] < seq[j]

\* C11: find() returns one provenance list per string: both arrays have the
\* same length, the k-th list is the list of the k-th string (it is not empty
\* and its nodes' texts make up that string), and the nodes of the lists, taken
\* list after list, are in document order, so the strings are too.
C11_OneListPerString ==
    /\ Len(result.strings) = Len(result.nodes)
    /\ \A k \in 1..Len(result.nodes) :
          /\ result.nodes[k] # <<>>
          /\ k <= Len(result.strings) => ConcatTexts(host, result.nodes[k]) = result.strings[k]
    /\ DocumentOrder(ProvenanceNodes(result.nodes))

C11_TwoStrings ==
    /\ pc = "idle"
    /\ scanned.finds > 0
    /\ Len(result.strings) = 2
    /\ result.nodes[1][1][1] = 2
    /\ result.nodes[2][1][1] = 4

\* the proper ancestors of a node of the host tree
RECURSIVE Ancestors(_, _)
Ancestors(h, n) ==
    IF h[n].parent = 0 THEN {}
    ELSE {h[n].parent} \cup Ancestors(h, h[n].parent)

NodesOf(sn) == {sn[j][1] : j \in 1..Len(sn)}

CapturedIn(ns) == UNION {NodesOf(ns[k]) : k \in 1..Len(ns)}

\* the nodes of the provenance lists find() returned, collected or is building
Captured == CapturedIn(result.nodes) \cup CapturedIn(nodes) \cup NodesOf(snodes)

HasProcessClass(h, n) == "tex2jax_process" \in h[n].class

\* C12: a node that appears in a provenance list has no ancestor whose kind is
\* in skip-tags, except ancestors that carry the process-class marker
\* themselves; so a text or include-tag node inside a skip-tag subtree appears
\* in no list unless the skip-tag node carries the marker.
C12_SkipTags ==
    \A n \in Captured :
        \A s \in Ancestors(host, n) :
            host[s].kind \in SkipTags => HasProcessClass(host, s)

\* a pre with the marker holds a plain pre and a text: the text of the plain
\* pre is left out, the text after it is returned
C12_SkippedAndRestarted ==
    /\ pc = "idle"
    /\ scanned.finds > 0
    /\ Len(host) >= 4
    /\ host[1].kind = "pre" /\ HasProcessClass(host, 1)
    /\ host[2].kind = "pre" /\ ~HasProcessClass(host, 2)
    /\ host[3].kind = "#text" /\ host[3].parent = 2 /\ host[3].value = <<"a", "b">>
    /\ host[4].kind = "#text" /\ host[4].parent = 1
    /\ result.nodes = << << <<4, 2>> >> >>

RECURSIVE Inherited(_, _)
\* the ignore flag a node inherits: that of the root is false, that of a child
\* is (its parent's OR the parent's class matches ignore-class) AND NOT (the
\* parent's class matches process-class)
Inherited(h, n) ==
    IF h[n].parent = 0 THEN FALSE
    ELSE /\ Inherited(h, h[n].parent) \/ "tex2jax_ignore" \in h[h[n].parent].class
         /\ ~HasProcessClass(h, h[n].parent)

\* every ancestor of the node is a container the scan descends into
Open(h, n) ==
    \A a \in Ancestors(h, n) :
        /\ "data-MJX" \notin h[a].attrs
        /\ HasProcessClass(h, a) \/ h[a].kind \notin SkipTags

NonBlank(text) == \E k \in 1..Len(text) : text[k] \notin WhiteSpace

\* C13: whenever the scan is at a node, its ignore flag is the one the node
\* inherits from its ancestors (so descending computes (ignore OR ignore-class)
\* AND NOT process-class, and leaving a subtree restores the flag of the level
\* resumed, with or without a next sibling of the node left); no node with an
\* inherited flag of true is in a provenance list, and a non-blank text whose
\* ancestors are descended into and whose inherited flag is false, as inside a
\* process-class region of an ignored region, is in a returned list.
C13_IgnoreNesting ==
    /\ (pc = "loop" /\ node # 0 /\ node # stop) => ignore = Inherited(host, node)
    /\ \A n \in Captured : ~Inherited(host, n)
    /\ (pc = "idle" /\ scanned.finds > 0) =>
          \A n \in 1..Len(host) :
              (/\ (n = 1 \/ 1 \in Ancestors(host, n))
               /\ host[n].kind = "#text" /\ NonBlank(host[n].value)
               /\ Open(host, n) /\ ~Inherited(host, n))
              => n \in CapturedIn(result.nodes)

\* an ignored region holds a span whose only child is a process-class span
\* with a text, and a text after that span: the inner text alone is returned
C13_ResumedWithoutSibling ==
    /\ pc = "idle"
    /\ scanned.finds > 0
    /\ Len(host) >= 5
    /\ "tex2jax_ignore" \in host[1].class
    /\ host[2].parent = 1 /\ host[2].class = {}
    /\ host[3].parent = 2 /\ HasProcessClass(host, 3)
    /\ host[4].parent = 3 /\ host[4].kind = "#text"
    /\ host[5].parent = 1 /\ host[5].kind = "#text"
    /\ result.nodes = << << <<4, 2>> >> >>

\* the attributes reserved for the nodes the engine produces
ReservedAttributes == {"data-MJX", "data-mjx-error"}

\* C14: no node in a provenance list lies below a node marked with a reserved
\* engine attribute (data-MJX or data-mjx-error), the error node of
\* typesetError included.
C14_EngineNodesNotScanned ==
    \A n \in Captured :
        \A a \in Ancestors(host, n) : host[a].attrs \cap ReservedAttributes = {}

\* the root given to find() and its descendants
Subtree(h) == {n \in 1..Len(h) : n = 1 \/ 1 \in Ancestors(h, n)}

\* C15: every node the loop of find() handles, the node it is at, and every
\* node of a provenance list is the root or a descendant of the root; the
\* sibling after the root is never handled.
C15_StaysInSubtree ==
    /\ \A k \in 1..Len(scanned.visited) : scanned.visited[k] \in Subtree(host)
    /\ (pc = "loop" /\ node # 0 /\ node # stop) => node \in Subtree(host)
    /\ Captured \subseteq Subtree(host)

\* a container root with children and a sibling after it: the scan handled the
\* whole subtree and stopped at the sibling
C15_StoppedAtSibling ==
    /\ pc = "idle"
    /\ scanned.finds > 0
    /\ Len(host) = 4 /\ host[4].parent = 0
    /\ scanned.visited = <<1, 2, 3>>
    /\ Captured # {}

\* C16: when find() has returned, the working state of the scanner (strings,
\* nodes, current string, current provenance list, stack) is empty, and a
\* second find() on the unchanged subtree returns the strings and provenance
\* lists the first one returned.
C16_FindIdempotent ==
    pc = "idle" =>
        /\ Fields(strings, string, snodes, nodes, stack) = Fields(<<>>, <<>>, <<>>, <<>>, <<>>)
        /\ scanned.finds >= 2 => result = scanned.before

C16_SecondFind ==
    /\ pc = "idle"
    /\ scanned.finds = 2
    /\ Len(result.strings) = 2
    /\ result = scanned.before

\* the items in the order a stage hands them to its step
PassOrder(s, m) ==
    IF s = "updateDocument" THEN [k \in 1..Len(m) |-> m[Len(m) + 1 - k].id] ELSE ItemIds(m)

IsPrefix(a, b) == Len(a) <= Len(b) /\ \A k \in 1..Len(a) : a[k] = b[k]

\* the call l of a stage operation on the list m was a pass from the start: it
\* called outputJax.getMetrics, or handed the items to the stage in the stage's
\* order, all of them unless a failure aborted it
FullPass(l, m) ==
    IF l.op = "getMetrics"
    THEN EvIds(l.log, "getMetrics") = <<0>>
    ELSE /\ IsPrefix(EvIds(l.log, l.op), PassOrder(l.op, m))
         /\ l.threw = NoErr => EvIds(l.log, l.op) = PassOrder(l.op, m)
         /\ l.threw # NoErr => l.log # <<>>

AllFlagsFalse(p) == \A k \in DOMAIN p : ~p[k]

\* C17: reset() leaves every processed flag (findMath, compile, getMetrics,
\* typeset, updateDocument) false and the MathList, its order and its items as
\* they were; a stage operation called next is a pass from the start over the
\* whole list.
C17_ResetFrame ==
    [][/\ last'.op = "reset" =>
             /\ DOMAIN processed' =
                   {"findMath", "compile", "getMetrics", "typeset", "updateDocument"}
             /\ AllFlagsFalse(processed')
             /\ math' = math
       /\ (last.op = "reset" /\ last'.op \in StageOps) => FullPass(last', math)]_vars

C17_ResetAfterInsertion ==
    /\ last.op = "reset"
    /\ AllFlagsFalse(processed)
    /\ Len(math) > 0 /\ math[1].state = INSERTED /\ math[1].typesetRoot = OutNode

\* C18 as claimed: clear() leaves every flag false and the list empty, and a
\* stage operation called next processes no item and sets its flag.
C18_AfterClearSetsFlag ==
    [][/\ last'.op = "clear" => (AllFlagsFalse(processed') /\ math' = <<>>)
       /\ (last.op = "clear" /\ last'.op \in StageOps) =>
             /\ \A k \in 1..Len(last'.log) : last'.log[k].id = 0
             /\ processed'[last'.op]]_vars

\* C18: clear() leaves every flag false and the list empty; compile(),
\* typeset() or updateDocument() called next makes no call, returns normally
\* and sets its flag; getMetrics() called next calls outputJax.getMetrics and
\* no item, and sets its flag exactly when that call returns normally.
C18_ClearEmpties ==
    [][/\ last'.op = "clear" => (AllFlagsFalse(processed') /\ math' = <<>>)
       /\ (last.op = "clear" /\ last'.op \in StageOps \ {"getMetrics"}) =>
             /\ last'.log = <<>> /\ last'.threw = NoErr
             /\ processed'[last'.op]
             /\ math' = <<>>
       /\ (last.op = "clear" /\ last'.op = "getMetrics") =>
             /\ EvIds(last'.log, "getMetrics") = <<0>>
             /\ processed'.getMetrics <=> last'.threw = NoErr
             /\ math' = <<>>]_vars

C18_Cleared ==
    /\ last.op = "clear"
    /\ math = <<>>
    /\ AllFlagsFalse(processed)

\* the gap between the numerator's bottom and the denominator's top, with the
\* numerator raised by u and the denominator lowered by v
Gap(f, u, v) ==
    (u - Scaled(f.nbox.d, f.nbox.scale)) - (Scaled(f.dbox.h, f.dbox.scale) - v)

\* C19: getUVQ(display) starts from u, v = num1, denom1 (display) or num3,
\* denom2 (inline) and p = 7 (display) or 3 (inline) rule thicknesses; when the
\* raw gap q is below p it returns u and v each increased by (p - q)/2, the gap
\* of the returned offsets is p and q is returned as p; when q >= p it returns
\* u, v and q unchanged.
C19_AtopSeparation ==
    uvq.called =>
        LET tex == frac.font
            u0 == IF uvq.display THEN tex.num1 ELSE tex.num3
            v0 == IF uvq.display THEN tex.denom1 ELSE tex.denom2
            p == IF uvq.display THEN 7 * tex.rule_thickness ELSE 3 * tex.rule_thickness
            q0 == Gap(frac, u0, v0)
        IN IF q0 < p
           THEN /\ 2 * (uvq.u - u0) = p - q0
                /\ 2 * (uvq.v - v0) = p - q0
                /\ Gap(frac, uvq.u, uvq.v) = p
                /\ uvq.q = p
           ELSE /\ uvq.u = u0 /\ uvq.v = v0
                /\ uvq.q = q0

\* numerator descent 1 em and denominator ascent 1 em, display style: the
\* offsets were pushed apart to the minimum separation
C19_PushedApart ==
    /\ uvq.called /\ uvq.display
    /\ frac.nbox.d = Unit /\ frac.nbox.scale = 2
    /\ frac.dbox.h = Unit /\ frac.dbox.scale = 2
    /\ uvq.q = 7 * frac.font.rule_thickness
    /\ uvq.u > frac.font.num1 /\ uvq.v > frac.font.denom1

\* the scaled extent h + d of a child's box
Extent(c) == Scaled(c.h + c.d, c.scale)

\* C20: the box computeBBox gives a bevelled fraction has a total height of at
\* least the larger scaled extent of its parts plus twice delta, 0.4 em in
\* display style and 0.15 em otherwise.
C20_BevelledHeight ==
    (wpc = "done" /\ frac.bevelled) =>
        bbox.h + bbox.d >=
            Max(Extent(frac.nbox), Extent(frac.dbox))
            + 2 * (IF frac.displaystyle /\ frac.scriptlevel = 0 THEN Mil(400) ELSE Mil(150))

C20_BevelledDisplay ==
    /\ wpc = "done" /\ frac.bevelled
    /\ frac.displaystyle /\ frac.scriptlevel = 0
    /\ frac.nbox.h = Unit /\ frac.nbox.d = Unit \div 2 /\ frac.dbox.h = Unit \div 2
    /\ bbox.h + bbox.d = Scaled(3 * (Unit \div 2), frac.nbox.scale) + Mil(800)

\* a node that is neither a text nor an include-tag
IsContainer(h, n) == h[n].kind # "#text" /\ h[n].kind \notin IncludeTags

\* the run of a text or include-tag node: the nodes of the scanned subtree
\* with the same parent and no container between them and the node
RunOf(h, n) ==
    {m \in Subtree(h) :
        /\ h[m].parent = h[n].parent
        /\ ~IsContainer(h, m)
        /\ \A k \in 1..Len(h) :
              (/\ h[k].parent = h[n].parent
               /\ (n < k /\ k < m) \/ (m < k /\ k < n)) => ~IsContainer(h, k)}

AllNonBlank(ss) == \A k \in 1..Len(ss) : NonBlank(ss[k])

\* every node of the provenance lists is of a run that has a non-blank text,
\* and the nodes of one list are of one run
FromNonBlankRuns(h, ns) ==
    \A k \in 1..Len(ns) :
        \A a \in NodesOf(ns[k]) :
            /\ \E m \in RunOf(h, a) : NonBlank(Contributed(h, m))
            /\ NodesOf(ns[k]) \subseteq RunOf(h, a)

\* C21: every string find() returns, or has collected, has a non-whitespace
\* character and comes with its provenance list; a run of only whitespace
\* leaves no string and none of its nodes in any provenance list, so nothing
\* of it is carried into the next string; a subtree without a non-blank text
\* yields no string.
C21_BlankRunsDropped ==
    /\ AllNonBlank(result.strings) /\ AllNonBlank(strings)
    /\ Len(result.nodes) = Len(result.strings) /\ Len(nodes) = Len(strings)
    /\ FromNonBlankRuns(host, result.nodes) /\ FromNonBlankRuns(host, nodes)
    /\ (pc = "idle" /\ scanned.finds > 0
          /\ \A n \in Subtree(host) : ~NonBlank(Contributed(host, n)))
       => result = NoResult

\* a blank text, a container and a text: the blank text was scanned and is of
\* no string, the text after the container is the one string
C21_BlankThenText ==
    /\ pc = "idle"
    /\ scanned.finds > 0
    /\ Len(host) >= 4
    /\ host[2].parent = 1 /\ host[2].kind = "#text" /\ host[2].value = <<" ">>
    /\ host[3].parent = 1 /\ IsContainer(host, 3)
    /\ host[4].parent = 1 /\ host[4].kind = "#text"
    /\ \E k \in 1..Len(scanned.visited) : scanned.visited[k] = 2
    /\ result.nodes = << << <<4, 2>> >> >>

\* the nodes of every provenance list are of one run: no list has nodes on
\* both sides of a container or of the boundary of a subtree
OneRunEach(h, ns) ==
    \A k \in 1..Len(ns) : \A a, b \in NodesOf(ns[k]) : b \in RunOf(h, a)

\* the strings after a flush of the string in progress
Flushed(ss, str) == IF NonBlank(str) THEN Append(ss, str) ELSE ss

NoRepeat(seq) == \A i, j \in 1..Len(seq) : i # j => seq[i] # seq[j]

\* C23: find() terminates: no node is the current node of two passes of the
\* loop and every such node is of the subtree, the code after the loop runs
\* only when the current node is empty or the sibling after the root, and a
\* scan that has begun leads to find() returning its result.
C23_FindTerminates ==
    /\ [](NoRepeat(scanned.visited)
          /\ \A k \in 1..Len(scanned.visited) : scanned.visited[k] \in Subtree(host))
    /\ [][(pc = "loop" /\ pc' = "idle") =>
             /\ node = 0 \/ node = NextSibling(host, 1)
             /\ Len(result'.strings) = Len(result'.nodes)]_vars
    /\ (pc = "loop") ~> (pc = "idle" /\ scanned.finds > 0)

\* a span holds a span with a text and, after it, a text: the scan went down,
\* came back up through the stack, and find() returned both strings
C23_ReturnedThroughStack ==
    /\ pc = "idle"
    /\ scanned.finds > 0
    /\ Len(host) >= 4
    /\ host[2].parent = 1 /\ host[3].parent = 2 /\ host[4].parent = 1
    /\ scanned.visited = <<1, 2, 3, 4>>
    /\ Len(result.strings) = 2

\* the replacement texts of the include-tags: a newline for br, nothing for
\* wbr and for a comment
Replacement(kind) == IF kind = "br" THEN <<"\n">> ELSE <<>>

ErrorTree(display) ==
    [kind |-> "math>merror>mtext", text |-> "Math input error",
     display |-> IF display THEN "block" ELSE ""]

\* the errors the log says the compile-error handler was called with for an item
Isolated(log, id) ==
    {log[k].err : k \in {j \in 1..Len(log) : log[j].ev = "compileError" /\ log[j].id = id}}

\* the failures the log says the input processor threw for an item
Thrown(log, id) ==
    {log[k].err : k \in {j \in 1..Len(log) :
                           log[j].ev = "inputJax" /\ log[j].id = id /\ log[j].err # NoErr}}

C26_OneLayout ==
    /\ wpc = "done" =>
          /\ Len(trace) = 3 /\ trace[1] = "empty" /\ trace[3] = "clean"
          /\ frac.bevelled => trace[2] = "getBevelledBBox"
          /\ (~frac.bevelled /\ frac.linethickness = 0) => trace[2] = "getAtopBBox"
          /\ (~frac.bevelled /\ frac.linethickness # 0) => trace[2] = "getFractionBBox"
          /\ bbox = Clean(
                IF frac.bevelled
                THEN GetBevelledBBox(frac, bevel, EmptyBBox, IsDisplay(frac))
                ELSE IF frac.linethickness = 0
                THEN GetAtopBBox(frac, EmptyBBox, IsDisplay(frac))
                ELSE GetFractionBBox(frac, EmptyBBox, IsDisplay(frac), frac.linethickness))
          /\ bbox.h # -BIGDIMEN /\ bbox.d # -BIGDIMEN
    /\ wpc # "done" => trace = <<>> /\ bbox = EmptyBBox

\* a bevelled fraction whose line thickness is 0 was laid out bevelled
C26_BevelledWithoutLine ==
    /\ wpc = "done"
    /\ frac.bevelled /\ frac.linethickness = 0
    /\ trace = <<"empty", "getBevelledBBox", "clean">>

\* the box of the layout of a fraction, laid out in display style or not
LaidOut(f, lbox, display) ==
    Clean(IF f.bevelled THEN GetBevelledBBox(f, lbox, EmptyBBox, display)
          ELSE IF f.linethickness = 0 THEN GetAtopBBox(f, EmptyBBox, display)
          ELSE GetFractionBBox(f, EmptyBBox, display, f.linethickness))

\* the bevel the constructor makes, in display style or not
BevelOf(f, display) ==
    IF f.bevelled THEN StretchedBevel(GetBevelData(f, display).H, f.font.axis_height)
    ELSE NoBevel

\* C27: the fraction is laid out in display style only when displaystyle is
\* true and scriptlevel is 0: at any other scriptlevel, and when displaystyle is
\* false, the bevel and the box are those of the inline constants, whatever
\* displaystyle is: a rule expanded by 1.5 times its thickness, a separation of
\* at least 3 rule thicknesses, and a bevel delta of 0.15 em; at scriptlevel 0
\* with displaystyle they are those of the display constants.
C27_DisplayOnlyAtTopLevel ==
    /\ wpc \in {"built", "done"} =>
          bevel = BevelOf(frac, frac.displaystyle /\ frac.scriptlevel = 0)
    /\ wpc = "done" =>
          bbox = LaidOut(frac, bevel, frac.displaystyle /\ frac.scriptlevel = 0)
    /\ wpc = "new" =>
          /\ 2 * GetTUV(frac, FALSE, frac.linethickness).T = 3 * frac.linethickness
          /\ GetUVQ(frac, FALSE).q >= 3 * frac.font.rule_thickness
          /\ \/ GetUVQ(frac, FALSE).q = 3 * frac.font.rule_thickness
             \/ GetUVQ(frac, FALSE).u = frac.font.num3
          /\ GetBevelData(frac, FALSE).delta = Mil(150)
          /\ 2 * GetTUV(frac, TRUE, frac.linethickness).T = 7 * frac.linethickness
          /\ GetUVQ(frac, TRUE).q >= 7 * frac.font.rule_thickness
          /\ GetBevelData(frac, TRUE).delta = Mil(400)

\* a fraction with displaystyle at scriptlevel 2 was laid out: its box is the
\* inline box and not the box of the display constants
C27_NestedDisplayStyle ==
    /\ wpc = "done"
    /\ frac.displaystyle /\ frac.scriptlevel = 2
    /\ bbox = LaidOut(frac, bevel, FALSE)
    /\ bbox # LaidOut(frac, BevelOf(frac, TRUE), TRUE)

\* the quote the claim describes: the mark in place of the plain double quote
\* of a wrapper that is not monospace and whose attribute is not set
ExpectedQuote(variant, attr, mark) ==
    IF variant = "monospace" THEN attr.value
    ELSE IF attr.isSet THEN attr.value
    ELSE IF attr.value = PlainQuote THEN mark
    ELSE attr.value

\* C28: the constructor of the ms wrapper makes the child sequence the left
\* quote wrapper, the children it had in their order, and the right quote
\* wrapper; both quote wrappers are text wrappers whose parent is the ms
\* wrapper; the left quote is U+201C and the right U+201D in place of the plain
\* double quote only when the variant is not monospace and the attribute is
\* not set; an attribute that is set, and any other value, is used unchanged.
C28_QuotesAdded ==
    [][(~ms.built /\ ms'.built) =>
          LET n == Len(ms.childNodes)
              kids == ms'.childNodes
          IN /\ Len(kids) = n + 2
             /\ \A k \in 1..n : kids[k + 1] = ms.childNodes[k]
             /\ kids[1] = [kind |-> "text", parent |-> "this",
                           text |-> ExpectedQuote(ms.variant, ms.attributes.lquote, LeftMark)]
             /\ kids[n + 2] = [kind |-> "text", parent |-> "this",
                               text |-> ExpectedQuote(ms.variant, ms.attributes.rquote, RightMark)]
             /\ ms'.attributes = ms.attributes /\ ms'.variant = ms.variant]_vars

\* an ms with two children, lquote set to the plain double quote and rquote
\* left at its default: the left quote is unchanged, the right is the mark
C28_OverrideKept ==
    /\ ms.built
    /\ ms.variant = "normal"
    /\ ms.attributes.lquote = Attr(PlainQuote, TRUE)
    /\ ms.attributes.rquote = Attr(PlainQuote, FALSE)
    /\ Len(ms.childNodes) = 4
    /\ ms.childNodes[1].text = PlainQuote
    /\ ms.childNodes[2].kind = "text" /\ ms.childNodes[3].kind = "mglyph"
    /\ ms.childNodes[4].text = RightMark

\* the events of a log that are calls of an error handler
HandlerCalls(log) ==
    {k \in 1..Len(log) : log[k].ev \in {"compileError", "typesetError"}}

\* C29: a call of updateDocument() or getMetrics() isolates nothing: a failure
\* of an item's updateDocument or of outputJax.getMetrics ends the call and is
\* what the call throws, whatever its retry and restart flags; no error
\* handler is called; the stage flag is left as it was, false; getMetrics
\* leaves the items alone; and when updateDocument fails at an item, the items
\* before it in document order are as they were and the items after it are
\* inserted.
C29_NoIsolation ==
    [][last'.op \in {"updateDocument", "getMetrics"} =>
          LET log == last'.log
          IN /\ HandlerCalls(log) = {}
             /\ \A k \in 1..Len(log) :
                   log[k].err # NoErr => k = Len(log) /\ last'.threw = log[k].err
             /\ last'.threw # NoErr =>
                   /\ log # <<>> /\ log[Len(log)].err = last'.threw
                   /\ processed' = processed /\ ~processed'[last'.op]
                   /\ Len(math') = Len(math)
                   /\ last'.op = "getMetrics" => math' = math
                   /\ last'.op = "updateDocument" =>
                         \A i \in 1..Len(math) :
                             /\ math[i].id <= log[Len(log)].id => math'[i] = math[i]
                             /\ math[i].id > log[Len(log)].id => math'[i].state = INSERTED]_vars

\* updateDocument() has failed at the first of two items with a failure that
\* has no retry or restart flag: the second item is inserted, the first is not
C29_FailedAtFirstItem ==
    /\ last.op = "updateDocument"
    /\ last.threw = FatalErr
    /\ Len(math) = 2
    /\ math[2].state = INSERTED
    /\ math[1].state < INSERTED
    /\ ~processed.updateDocument

\* the error a stage operation records on an item
RecordedError(item, op) == IF op = "compile" THEN item.inputError ELSE item.outputError

\* C30: when the error handler configured for compile() or typeset() throws
\* while a failure of an item is being isolated, the call throws what the
\* handler threw and makes no further call; the failure is not recorded on the
\* item, which is as it was; the items after it are as they were and are not
\* handed to the stage; and the stage flag is left as it was, false.
C30_HandlerThrows ==
    [][(/\ last'.op \in {"compile", "typeset"}
        /\ options[HandlerOf(last'.op)] = "throws"
        /\ HandlerCalls(last'.log) # {}) =>
          LET log == last'.log
              at == log[Len(log)].id
          IN /\ HandlerCalls(log) = {Len(log)}
             /\ log[Len(log)].ev = HandlerOf(last'.op)
             /\ last'.threw = HandlerErr
             /\ Len(math') = Len(math)
             /\ \A i \in 1..Len(math) :
                   /\ math[i].id = at =>
                         /\ math'[i] = math[i]
                         /\ RecordedError(math'[i], last'.op) = RecordedError(math[i], last'.op)
                   /\ math[i].id > at =>
                         /\ math'[i] = math[i]
                         /\ math[i].id \notin Ids(log, last'.op)
             /\ processed' = processed
             /\ ~processed'[last'.op]]_vars

\* the typesetError handler threw at the first of two items: no error is
\* recorded on it, the second item was not typeset, the flag is not set
C30_TypesetHandlerThrew ==
    /\ last.op = "typeset"
    /\ options.typesetError = "throws"
    /\ last.threw = HandlerErr
    /\ Len(math) = 2
    /\ last.log[Len(last.log)] = Ev("typesetError", 1, FatalErr)
    /\ math[1].outputError = NoErr /\ math[1].typesetRoot = NoNode
    /\ math[2].state < TYPESET
    /\ ~processed.typeset

\* the depth of a node below the top of its tree
Depth(h, n) == Cardinality(Ancestors(h, n))

\* every entry of the stack is a node of the scanned subtree, or the sibling
\* after the root, paired with the ignore flag of the level the node is at
EntriesResume(h, st) ==
    \A k \in 1..Len(st) :
        /\ st[k][1] \in 1..Len(h)
        /\ st[k][1] \in Subtree(h) \/ st[k][1] = NextSibling(h, 1)
        /\ st[k][1] # 1
        /\ st[k][2] = Inherited(h, st[k][1])

====
